---- MODULE Spec2Model ----
(***************************************************************************)
(* Model of the Numbeo pipeline: the harvester (scraper.py), the unifier   *)
(* (import_db.py) and the query menu (query_db.py).                        *)
(*                                                                         *)
(* Text is modelled as a sequence of one-character strings, so that        *)
(* strip(), lower(), re.sub() and rfind() are computed character by        *)
(* character as Python computes them.  A DataFrame is a record             *)
(* [columns, rows]; None is the empty tuple and a value v that may be None *)
(* is carried as the one-element tuple <<v>>.                              *)
(***************************************************************************)
EXTENDS Integers, Sequences, FiniteSets, TLC

VARIABLES
    site,       \* the website: unit index -> id of the page it serves
    pc,         \* position of main()
    di,         \* index into DATASETS of the outer loop
    yi,         \* index into YEARS of the inner loop
    session,    \* the browsing session main holds: "none", "open", "closed"
    quitCalls,  \* number of driver.quit() calls made
    results,    \* main's dict results: unit index -> len(df)
    files,      \* data/<dataset>_<year>.csv: unit index -> the batch written
    df,         \* value returned by the last scrape_dataset call (<<>> = None)
    exc,        \* exception in flight in main: "none", "exception", "interrupt"
    exit,       \* how the process ended: "running", "ok", "error", "interrupted"
    report,     \* the summary main prints at its end (<<>> = nothing printed)
    invoked,    \* units for which main has called scrape_dataset
    warned,     \* units for which a "[WARN] Timed out / not found" line was printed
    log,        \* what main has done so far: its scrape_dataset calls and file writes
    arg,        \* input of the helper function under check
    out,        \* its result (<<>> = not yet applied)
    dataDir,    \* data/: table index -> the kinds of its CSV files, sorted by name
    ipc,        \* position of import_db.main()
    ti,         \* index into TABLES of the table import_db.main() imports next
    db,         \* numbeo.db: table index -> its table (<<>> = no such table)
    success_count, \* import_db.main's success_count
    combined,   \* what load_csvs returned to the last import_table call
    fatal,      \* import_db.main printed "[FATAL] Unexpected error"
    iexit,      \* how the import process ended: "running", "ok", "error"
    runs,       \* number of import runs that have ended
    dbFirst,    \* numbeo.db as the first complete import run left it (<<>> = none yet)
    qpc,        \* position of query_db.main()
    store,      \* numbeo.db as committed: table index -> "absent", "full", "empty"
    view,       \* the tables as the query connection sees them
    inTxn,      \* the query connection has an open, uncommitted transaction
    store0,     \* numbeo.db as it was when query_db.main() started
    choices     \* number of menu choices query_db.main() has read

vars == <<site, pc, di, yi, session, quitCalls, results, files, df, exc, exit,
          report, invoked, warned, log, arg, out,
          dataDir, ipc, ti, db, success_count, combined, fatal, iexit, runs, dbFirst,
          qpc, store, view, inTxn, store0, choices>>

campaignVars == <<site, pc, di, yi, session, quitCalls, results, files, df, exc,
                  exit, report, invoked, warned, log>>

unifierVars == <<dataDir, ipc, ti, db, success_count, combined, fatal, iexit,
                 runs, dbFirst>>

queryVars == <<qpc, store, view, inTxn, store0, choices>>

\* the variables main() leaves alone
helperVars == <<arg, out, unifierVars, queryVars>>

-----------------------------------------------------------------------------
(* Bounds of the model *)

\* longest label given to normalize
MaxLabelLen == 4
\* longest string given to split_city_country
MaxCellLen == 4
\* longest raw row and widest header set given to the alignment step
MaxRowLen == 4
\* number of units whose page may differ from the page the other units serve
MaxVaried == 1

-----------------------------------------------------------------------------
(* Characters and Python's str methods *)

LowerSeq == <<"a","b","c","d","e","f","g","h","i","j","k","l","m",
              "n","o","p","q","r","s","t","u","v","w","x","y","z">>
UpperSeq == <<"A","B","C","D","E","F","G","H","I","J","K","L","M",
              "N","O","P","Q","R","S","T","U","V","W","X","Y","Z">>
LowerLetters == {LowerSeq[i] : i \in DOMAIN LowerSeq}
DigitChars == {"0","1","2","3","4","5","6","7","8","9"}

\* the characters str.strip() removes
IsSpace(c) == c \in {" ", "\t", "\n"}

\* the class [a-z0-9] of the regular expression in normalize
IsAlnum(c) == c \in LowerLetters \cup DigitChars

LowerCh(c) ==
    IF \E i \in DOMAIN UpperSeq : UpperSeq[i] = c
    THEN LowerSeq[CHOOSE i \in DOMAIN UpperSeq : UpperSeq[i] = c]
    ELSE c

\* str.lower()
Lower(s) == [i \in 1..Len(s) |-> LowerCh(s[i])]

SetMin(S) == CHOOSE x \in S : \A y \in S : x <= y
SetMax(S) == CHOOSE x \in S : \A y \in S : x >= y

\* str.strip(chars): drop the leading and trailing characters that are in chars
StripChars(s, chars) ==
    LET keep == {i \in 1..Len(s) : s[i] \notin chars}
    IN  IF keep = {} THEN <<>> ELSE SubSeq(s, SetMin(keep), SetMax(keep))

\* str.strip()
Strip(s) == StripChars(s, {" ", "\t", "\n"})

\* re.sub(r"[^a-z0-9]+", "_", s): every maximal run of other characters -> "_"
ReSubNonAlnum(s) ==
    LET F[i \in 0..Len(s)] ==
            IF i = 0 THEN <<>>
            ELSE IF IsAlnum(s[i]) THEN Append(F[i-1], s[i])
            ELSE IF i > 1 /\ ~IsAlnum(s[i-1]) THEN F[i-1]
            ELSE Append(F[i-1], "_")
    IN  F[Len(s)]

\* Python's `sub in s`
Contains(s, sub) ==
    \E i \in 1..(Len(s) - Len(sub) + 1) : SubSeq(s, i, i + Len(sub) - 1) = sub

-----------------------------------------------------------------------------
(* Helpers of scraper.py *)

\* normalize as it would be without the final strip("_")
normalize_NoStrip(name) == ReSubNonAlnum(Lower(Strip(name)))

\* normalize(name)
normalize(name) == StripChars(ReSubNonAlnum(Lower(Strip(name))), {"_"})

\* split_city_country splitting on the first comma instead of the last
split_city_country_FirstComma(val) ==
    LET s == Strip(val)
        commas == {i \in 1..Len(s) : s[i] = ","}
    IN  IF commas = {} THEN [city |-> s, country |-> <<>>]
        ELSE LET idx == SetMin(commas)
             IN  [city    |-> Strip(SubSeq(s, 1, idx - 1)),
                  country |-> Strip(SubSeq(s, idx + 1, Len(s)))]

\* split_city_country(val)
split_city_country(val) ==
    LET s == Strip(val)
        commas == {i \in 1..Len(s) : s[i] = ","}
    IN  IF commas = {} THEN [city |-> s, country |-> <<>>]
        ELSE LET idx == SetMax(commas)   \* s.rfind(",")
             IN  [city    |-> Strip(SubSeq(s, 1, idx - 1)),
                  country |-> Strip(SubSeq(s, idx + 1, Len(s)))]

\* the alignment step padding short rows but not cutting long ones
AlignRow_NoTrim(row, n_cols) ==
    IF Len(row) < n_cols
    THEN row \o [i \in 1..(n_cols - Len(row)) |-> <<>>]
    ELSE row

\* the pad/trim of one row in scrape_dataset
AlignRow(row, n_cols) ==
    LET padded == IF Len(row) < n_cols
                  THEN row \o [i \in 1..(n_cols - Len(row)) |-> <<>>]
                  ELSE row
    IN  SubSeq(padded, 1, IF n_cols < Len(padded) THEN n_cols ELSE Len(padded))

-----------------------------------------------------------------------------
(* Constants of scraper.py *)

DATASETS == <<"cost_of_living", "quality_of_life", "crime", "property_prices">>

YEARS == << <<"c","u","r","r","e","n","t">>, <<"2","0","2","3">>,
            <<"2","0","2","4">>, <<"2","0","2","5">> >>

\* the loops nested the other way round: years outside, datasets inside
UnitIndex_YearsOutside(d, y) == (y - 1) * Len(DATASETS) + d

\* position of the unit (DATASETS[d], YEARS[y]) in the order main visits them
UnitIndex(d, y) == (d - 1) * Len(YEARS) + y

Units == 1..(Len(DATASETS) * Len(YEARS))

-----------------------------------------------------------------------------
(* DataFrame operations used by scrape_dataset *)

kCity    == <<"c","i","t","y">>
kCountry == <<"c","o","u","n","t","r","y">>
kYear    == <<"y","e","a","r">>

sNA    == <<"N","/","A">>
sna    == <<"n","/","a">>
sDash  == <<"-">>

\* positions of the columns labelled name
ColumnPositions(frame, name) ==
    {i \in 1..Len(frame.columns) : frame.columns[i] = name}

\* frame[name] = values: overwrite the column if the label exists, else append it
SetColumn(frame, name, values) ==
    IF ColumnPositions(frame, name) # {}
    THEN [frame EXCEPT !.rows =
            [r \in 1..Len(frame.rows) |->
                [c \in 1..Len(frame.columns) |->
                    IF frame.columns[c] = name THEN values[r] ELSE frame.rows[r][c]]]]
    ELSE [columns |-> Append(frame.columns, name),
          rows    |-> [r \in 1..Len(frame.rows) |-> Append(frame.rows[r], values[r])]]

RECURSIVE SelectPositions(_, _, _)
\* the elements of seq at the positions in keep, in order, from position i on
SelectPositions(seq, keep, i) ==
    IF i > Len(seq) THEN <<>>
    ELSE IF i \in keep THEN <<seq[i]>> \o SelectPositions(seq, keep, i + 1)
    ELSE SelectPositions(seq, keep, i + 1)

\* frame.drop(columns=[name], inplace=True)
DropColumn(frame, name) ==
    LET keep == (1..Len(frame.columns)) \ ColumnPositions(frame, name)
    IN  [columns |-> SelectPositions(frame.columns, keep, 1),
         rows    |-> [r \in 1..Len(frame.rows) |->
                         SelectPositions(frame.rows[r], keep, 1)]]

\* df.replace({"N/A": "", "-": "", "n/a": ""}): whole-cell, exact matches only
ReplaceSentinels(frame) ==
    [frame EXCEPT !.rows =
        [r \in 1..Len(frame.rows) |->
            [c \in 1..Len(frame.rows[r]) |->
                IF frame.rows[r][c] \in {sNA, sDash, sna} THEN <<>>
                ELSE frame.rows[r][c]]]]

\* next((c for c in df.columns if "city" in c), None), <<>> standing for None
CityColumn(columns) ==
    LET hits == {i \in 1..Len(columns) : Contains(columns[i], kCity)}
    IN  IF hits = {} THEN <<>> ELSE <<columns[SetMin(hits)]>>

\* the city / country split of scrape_dataset
SplitCity(frame) ==
    LET cc == CityColumn(frame.columns)
    IN  IF cc = <<>> \/ cc[1] = <<>> THEN frame
        ELSE LET pos   == SetMin(ColumnPositions(frame, cc[1]))
                 parts == [r \in 1..Len(frame.rows) |->
                              split_city_country(frame.rows[r][pos])]
                 f1 == SetColumn(frame, kCity,
                                 [r \in 1..Len(frame.rows) |-> parts[r].city])
                 f2 == SetColumn(f1, kCountry,
                                 [r \in 1..Len(frame.rows) |-> parts[r].country])
             IN  IF cc[1] \notin {kCity, kCountry} THEN DropColumn(f2, cc[1]) ELSE f2

-----------------------------------------------------------------------------
(* Table extraction *)

\* scrape_headers: one identifier per th of the header row
scrape_headers(ths) ==
    [i \in 1..Len(ths) |->
        LET text == Strip(ths[i].text)
        IN  IF text # <<>> THEN normalize(text)
            ELSE normalize(IF ths[i].aria # <<>> THEN ths[i].aria
                           ELSE <<"c","o","l">>)]

\* the rows of one rendered page: the stripped td texts of every tr that has a td
PageRows(trs) ==
    LET cells == [t \in 1..Len(trs) |-> [c \in 1..Len(trs[t]) |-> Strip(trs[t][c])]]
    IN  SelectPositions(cells, {t \in 1..Len(trs) : cells[t] # <<>>}, 1)

\* the while loop of scrape_table if it never clicked the next control
TableLoop_NeverClicks(tbl, i, all_rows) ==
    IF ~tbl[i].wait
    THEN [rows |-> all_rows, raised |-> FALSE, timed_out |-> TRUE, pages |-> i - 1,
          clicks |-> i - 1]
    ELSE [rows |-> all_rows \o PageRows(tbl[i].trs), raised |-> FALSE,
          timed_out |-> FALSE, pages |-> i, clicks |-> i - 1]

RECURSIVE TableLoop(_, _, _)
\* the while loop of scrape_table, at page i of tbl with all_rows collected so far
TableLoop(tbl, i, all_rows) ==
    IF ~tbl[i].wait
    THEN [rows |-> all_rows, raised |-> FALSE, timed_out |-> TRUE, pages |-> i - 1,
          clicks |-> i - 1]
    ELSE LET rows2 == all_rows \o PageRows(tbl[i].trs)
         IN  CASE tbl[i].next = "absent" ->
                    [rows |-> rows2, raised |-> FALSE, timed_out |-> FALSE, pages |-> i,
                     clicks |-> i - 1]
               [] tbl[i].next = "disabled" ->
                    [rows |-> rows2, raised |-> FALSE, timed_out |-> FALSE, pages |-> i,
                     clicks |-> i - 1]
               [] tbl[i].next = "click_raises" ->
                    [rows |-> rows2, raised |-> TRUE, timed_out |-> FALSE, pages |-> i,
                     clicks |-> i]
               [] tbl[i].next = "enabled" -> TableLoop(tbl, i + 1, rows2)

\* scrape_table(driver, url) on the page the url serves
scrape_table(page) ==
    LET t == TableLoop(page.tbl, 1, <<>>)
    IN  [rows |-> t.rows, raised |-> t.raised, timed_out |-> t.timed_out,
         pages |-> t.pages, clicks |-> t.clicks,
         gets |-> 1]    \* driver.get(url) at the head of scrape_table

\* scrape_dataset(driver, dataset_key, year) on the page the unit's url serves:
\* df is the value returned (<<>> = None), raised tells that an exception left it;
\* gets, header_reads and clicks count the driver.get(url) calls, the
\* scrape_headers calls and the next-control clicks made on the way
scrape_dataset(page, year) ==
    IF ~page.hdr
    THEN [df |-> <<>>, raised |-> FALSE, timed_out |-> TRUE,
          gets |-> 1, header_reads |-> 0, clicks |-> 0]
    ELSE LET headers == scrape_headers(page.ths)
             t == scrape_table(page)
         IN  IF t.raised
             THEN [df |-> <<>>, raised |-> TRUE, timed_out |-> t.timed_out,
                   gets |-> 1 + t.gets, header_reads |-> 1, clicks |-> t.clicks]
             ELSE IF t.rows = <<>>
             THEN [df |-> <<>>, raised |-> FALSE, timed_out |-> t.timed_out,
                   gets |-> 1 + t.gets, header_reads |-> 1, clicks |-> t.clicks]
             ELSE LET n_cols == Len(headers)
                      clean_rows == [r \in 1..Len(t.rows) |-> AlignRow(t.rows[r], n_cols)]
                      f0 == [columns |-> headers, rows |-> clean_rows]
                      f1 == SplitCity(f0)
                      f2 == SetColumn(f1, kYear, [r \in 1..Len(f1.rows) |-> year])
                      f3 == ReplaceSentinels(f2)
                  IN  [df |-> <<f3>>, raised |-> FALSE, timed_out |-> t.timed_out,
                       gets |-> 1 + t.gets, header_reads |-> 1, clicks |-> t.clicks]

-----------------------------------------------------------------------------
(* The website: the pages a unit's url may serve *)

thCity == [text |-> <<"C","i","t","y">>, aria |-> <<>>]
thIdx  == [text |-> <<" ","I","d","x">>, aria |-> <<>>]
thRank == [text |-> <<>>, aria |-> <<"R","a","n","k">>]

tXY  == <<"X",","," ","Y">>
tZ   == <<"Z">>
tZWV == <<"Z",",","W",","," ","V">>

PageIds == {"header_timeout", "row_timeout", "no_cells", "single", "two_pages",
            "late_timeout", "click_raises", "no_city", "dash_city", "mixed_case"}

\* hdr: the header row renders within the wait; ths: its cells; tbl: the table's
\* pages in order, each with wait (a row renders within the wait), trs (the td
\* texts of each tr) and next (the state of the #t2_next control)
PageOf(id) ==
    CASE id = "header_timeout" ->
            [hdr |-> FALSE, ths |-> <<>>, tbl |-> <<>>]
      [] id = "row_timeout" ->
            [hdr |-> TRUE, ths |-> <<thCity, thIdx>>,
             tbl |-> << [wait |-> FALSE, trs |-> <<>>, next |-> "absent"] >>]
      [] id = "no_cells" ->
            [hdr |-> TRUE, ths |-> <<thCity, thIdx>>,
             tbl |-> << [wait |-> TRUE, trs |-> << <<>> >>, next |-> "absent"] >>]
      [] id = "single" ->
            [hdr |-> TRUE, ths |-> <<thRank, thCity, thIdx>>,
             tbl |-> << [wait |-> TRUE,
                         trs  |-> << << <<"1">>, tXY, sNA >>, << <<"2">>, tZ, sDash >> >>,
                         next |-> "absent"] >>]
      [] id = "two_pages" ->
            [hdr |-> TRUE, ths |-> <<thCity, thIdx>>,
             tbl |-> << [wait |-> TRUE, trs |-> << <<tXY>> >>, next |-> "enabled"],
                        [wait |-> TRUE,
                         trs  |-> << <<tZWV, <<" ","n","/","a">>, <<"9">> >> >>,
                         next |-> "disabled"] >>]
      [] id = "late_timeout" ->
            [hdr |-> TRUE, ths |-> <<thCity, thIdx>>,
             tbl |-> << [wait |-> TRUE, trs |-> << <<tXY, <<"7">> >> >>, next |-> "enabled"],
                        [wait |-> FALSE, trs |-> <<>>, next |-> "absent"] >>]
      [] id = "click_raises" ->
            [hdr |-> TRUE, ths |-> <<thCity, thIdx>>,
             tbl |-> << [wait |-> TRUE, trs |-> << <<tXY, <<"7">> >> >>,
                         next |-> "click_raises"] >>]
      [] id = "no_city" ->
            [hdr |-> TRUE, ths |-> <<thRank, thIdx>>,
             tbl |-> << [wait |-> TRUE, trs |-> << << <<"1">>, <<"5">> >> >>,
                         next |-> "absent"] >>]
      [] id = "dash_city" ->
            [hdr |-> TRUE, ths |-> <<thCity, thIdx>>,
             tbl |-> << [wait |-> TRUE, trs |-> << << sDash, <<"5">> >> >>,
                         next |-> "disabled"] >>]
      [] id = "mixed_case" ->
            [hdr |-> TRUE, ths |-> <<thCity, thIdx>>,
             tbl |-> << [wait |-> TRUE, trs |-> << << tXY, <<"N","/","a">> >> >>,
                         next |-> "absent"] >>]

\* the websites considered: every unit serves page b, but for at most MaxVaried
\* units, which serve page p
Sites ==
    {[u \in Units |-> IF u \in S THEN p ELSE b] :
        S \in {T \in SUBSET Units : Cardinality(T) <= MaxVaried},
        p \in PageIds, b \in PageIds}

-----------------------------------------------------------------------------
(* main() *)

\* where control goes when an exception or an interrupt leaves the try body
Propagate_NoFinally == "done"

Propagate == "finally"

\* the exit status of the process
ExitCode(e) == IF e = "ok" THEN 0 ELSE 1

unit == UnitIndex(di, yi)

\* what scrape_dataset returns for each page and year (merging with the empty
\* function changes nothing and has the table computed once)
Scraped ==
    [x \in PageIds \X (1..Len(YEARS)) |-> scrape_dataset(PageOf(x[1]), YEARS[x[2]])]
        @@ <<>>

\* import_db.main() is not running
UnifierOff ==
    /\ dataDir = <<>>
    /\ ipc = "off"
    /\ ti = 1
    /\ db = <<>>
    /\ success_count = 0
    /\ combined = <<>>
    /\ fatal = FALSE
    /\ iexit = "running"
    /\ runs = 0
    /\ dbFirst = <<>>

\* query_db.main() is not running
QueryOff ==
    /\ qpc = "off"
    /\ store = <<>>
    /\ view = <<>>
    /\ inTxn = FALSE
    /\ store0 = <<>>
    /\ choices = 0

FnIdle == arg = <<>> /\ out = <<>> /\ UnifierOff /\ QueryOff

Init ==
    /\ site \in Sites
    /\ pc = "make_driver"
    /\ di = 1
    /\ yi = 1
    /\ session = "none"
    /\ quitCalls = 0
    /\ results = [u \in {} |-> 0]
    /\ files = [u \in {} |-> 0]
    /\ df = <<>>
    /\ exc = "none"
    /\ exit = "running"
    /\ report = <<>>
    /\ invoked = {}
    /\ warned = {}
    /\ log = <<>>
    /\ FnIdle

\* driver = make_driver() returns a session
MakeDriver ==
    /\ pc = "make_driver"
    /\ session' = "open"
    /\ pc' = "scrape"
    /\ UNCHANGED <<site, di, yi, quitCalls, results, files, df, exc, exit, report,
                   invoked, warned, log, helperVars>>

\* make_driver() raises before main enters its try statement: no session is
\* handed to main and the exception ends the process
MakeDriverFails ==
    /\ pc = "make_driver"
    /\ exc' = "exception"
    /\ exit' = "error"
    /\ pc' = "done"
    /\ UNCHANGED <<site, di, yi, session, quitCalls, results, files, df, report,
                   invoked, warned, log, helperVars>>

\* df = scrape_dataset(driver, dataset_key, year)
ScrapeDataset ==
    /\ pc = "scrape"
    /\ LET r == Scraped[<<site[unit], yi>>]
       IN  /\ invoked' = invoked \cup {unit}
           /\ warned' = IF r.timed_out THEN warned \cup {unit} ELSE warned
           /\ log' = Append(log, [op |-> "scrape", unit |-> unit, gets |-> r.gets,
                                  header_reads |-> r.header_reads,
                                  clicks |-> r.clicks])
           /\ IF r.raised
              THEN /\ exc' = "exception"
                   /\ pc' = Propagate
                   /\ df' = df
              ELSE /\ exc' = exc
                   /\ pc' = "scraped"
                   /\ df' = r.df
    /\ UNCHANGED <<site, di, yi, session, quitCalls, results, files, exit, report,
                   helperVars>>

\* the end of the loop body: time.sleep(2.0), then the next year, the next
\* dataset, or the end of the try body
Advance ==
    IF yi < Len(YEARS) THEN yi' = yi + 1 /\ di' = di /\ pc' = "scrape"
    ELSE IF di < Len(DATASETS) THEN yi' = 1 /\ di' = di + 1 /\ pc' = "scrape"
    ELSE yi' = yi /\ di' = di /\ pc' = "finally"

\* the test `df is not None and not df.empty` of main
HasData(d) ==
    IF d = <<>> THEN FALSE ELSE Len(d[1].rows) > 0 /\ Len(d[1].columns) > 0

\* df is not None and not df.empty: df.to_csv(filename); results[filename] = len(df)
Save ==
    /\ pc = "scraped"
    /\ HasData(df)
    /\ files' = [u \in DOMAIN files \cup {unit} |->
                    IF u = unit THEN df[1] ELSE files[u]]
    /\ results' = [u \in DOMAIN results \cup {unit} |->
                    IF u = unit THEN Len(df[1].rows) ELSE results[u]]
    /\ log' = Append(log, [op |-> "write", unit |-> unit, gets |-> 0,
                           header_reads |-> 0, clicks |-> 0])
    /\ Advance
    /\ UNCHANGED <<site, session, quitCalls, df, exc, exit, report, invoked, warned,
                   helperVars>>

\* the else branch: "[SKIP] No data - file not written"
Skip ==
    /\ pc = "scraped"
    /\ ~HasData(df)
    /\ Advance
    /\ UNCHANGED <<site, session, quitCalls, results, files, df, exc, exit, report,
                   invoked, warned, log, helperVars>>

\* an external interrupt (KeyboardInterrupt) arrives while a unit is in progress
KeyboardInterrupt ==
    /\ pc \in {"scrape", "scraped"}
    /\ exc' = "interrupt"
    /\ pc' = Propagate
    /\ UNCHANGED <<site, di, yi, session, quitCalls, results, files, df, exit,
                   report, invoked, warned, log, helperVars>>

\* finally: driver.quit(); an exception in flight then ends the process
Finally ==
    /\ pc = "finally"
    /\ quitCalls' = quitCalls + 1
    /\ session' = "closed"
    /\ IF exc = "none"
       THEN pc' = "summary" /\ exit' = exit
       ELSE /\ pc' = "done"
            /\ exit' = IF exc = "interrupt" THEN "interrupted" ELSE "error"
    /\ UNCHANGED <<site, di, yi, results, files, df, exc, report, invoked, warned,
                   log, helperVars>>

\* the summary printed after the try statement, then main returns
Summary ==
    /\ pc = "summary"
    /\ report' = << [files |-> results, total_files |-> Cardinality(DOMAIN results)] >>
    /\ exit' = "ok"
    /\ pc' = "done"
    /\ UNCHANGED <<site, di, yi, session, quitCalls, results, files, df, exc,
                   invoked, warned, log, helperVars>>

Next ==
    \/ MakeDriver
    \/ MakeDriverFails
    \/ ScrapeDataset
    \/ Save
    \/ Skip
    \/ KeyboardInterrupt
    \/ Finally
    \/ Summary

Spec == Init /\ [][Next]_vars

-----------------------------------------------------------------------------
(* import_db.py: values of a loaded frame and the CSV files *)

\* A cell of a frame loaded from CSV is null (NaN), a string, or a number;
\* the number m * 10^(-e) is carried as <<m, e>> with no trailing zero in m.
Null      == [k |-> "null", v |-> <<>>]
Str(s)    == [k |-> "str", v |-> s]
Num(m, e) == [k |-> "num", v |-> <<m, e>>]

kSourceFile == <<"_","s","o","u","r","c","e","_","f","i","l","e">>
kNan        == <<"n","a","n">>

\* the field texts pandas.read_csv takes for missing values by default
DefaultNaStrings ==
    {<<>>,
     <<"#","N","/","A">>,
     <<"#","N","/","A"," ","N","/","A">>,
     <<"#","N","A">>,
     <<"-","1",".","#","I","N","D">>,
     <<"-","1",".","#","Q","N","A","N">>,
     <<"-","N","a","N">>,
     <<"-","n","a","n">>,
     <<"1",".","#","I","N","D">>,
     <<"1",".","#","Q","N","A","N">>,
     <<"<","N","A",">">>,
     <<"N","/","A">>,
     <<"N","A">>,
     <<"N","U","L","L">>,
     <<"N","a","N">>,
     <<"N","o","n","e">>,
     <<"n","/","a">>,
     <<"n","a","n">>,
     <<"n","u","l","l">>}

\* df.to_csv(filename, index=False): the header and the fields a CSV reader
\* gets back from the file (quoting returns each text as it was written)
to_csv(frame) == [header |-> frame.columns, rows |-> frame.rows]

RECURSIVE DigitsOf(_)
\* str(n) for n >= 0
DigitsOf(n) ==
    LET d == <<"0","1","2","3","4","5","6","7","8","9">>[(n % 10) + 1]
    IN  IF n < 10 THEN <<d>> ELSE Append(DigitsOf(n \div 10), d)

\* the column labels read_csv makes of a header: an empty label at position i
\* (from 0) becomes "Unnamed: i", a repeated label gets ".1", ".2", ...
MangleHeader(header) ==
    [i \in 1..Len(header) |->
        LET before == Cardinality({j \in 1..(i - 1) : header[j] = header[i]})
        IN  IF header[i] = <<>>
            THEN <<"U","n","n","a","m","e","d",":"," ">> \o DigitsOf(i - 1)
            ELSE IF before = 0 THEN header[i]
            ELSE header[i] \o <<".">> \o DigitsOf(before)]

\* pd.read_csv(path, dtype=str) of a readable file
read_csv(file) ==
    [columns |-> MangleHeader(file.header),
     rows    |-> [r \in 1..Len(file.rows) |->
                    [c \in 1..Len(file.rows[r]) |->
                        IF file.rows[r][c] \in DefaultNaStrings THEN Null
                        ELSE Str(file.rows[r][c])]]]

-----------------------------------------------------------------------------
(* import_db.py: load_csvs, coerce_numerics, import_table *)

RECURSIVE UnionColumns(_, _)
\* the columns of the first n frames, each label once, in order of appearance
UnionColumns(frames, n) ==
    IF n = 0 THEN <<>>
    ELSE LET sofar == UnionColumns(frames, n - 1)
             cols  == frames[n].columns
             fresh == {i \in 1..Len(cols) :
                          \A j \in 1..Len(sofar) : sofar[j] # cols[i]}
         IN  sofar \o SelectPositions(cols, fresh, 1)

\* the rows of frame laid out under the columns cols, null where frame lacks one
Reindex(frame, cols) ==
    [r \in 1..Len(frame.rows) |->
        [c \in 1..Len(cols) |->
            IF ColumnPositions(frame, cols[c]) = {} THEN Null
            ELSE frame.rows[r][SetMin(ColumnPositions(frame, cols[c]))]]]

RECURSIVE StackRows(_, _, _)
\* the rows of the first n frames under the columns cols, frame after frame
StackRows(frames, cols, n) ==
    IF n = 0 THEN <<>>
    ELSE StackRows(frames, cols, n - 1) \o Reindex(frames[n], cols)

RECURSIVE CommonColumns(_, _)
\* the columns of frames[1] that every one of the first n frames has
CommonColumns(frames, n) ==
    IF n = 1 THEN frames[1].columns
    ELSE LET sofar == CommonColumns(frames, n - 1)
         IN  SelectPositions(sofar,
                 {i \in 1..Len(sofar) : ColumnPositions(frames[n], sofar[i]) # {}}, 1)

\* pd.concat keeping only the columns every frame has (join="inner")
concat_Inner(frames) ==
    LET cols == CommonColumns(frames, Len(frames))
    IN  [columns |-> cols, rows |-> StackRows(frames, cols, Len(frames))]

\* pd.concat(frames, ignore_index=True)
concat(frames) ==
    LET cols == UnionColumns(frames, Len(frames))
    IN  [columns |-> cols, rows |-> StackRows(frames, cols, Len(frames))]

\* load_csvs on the sorted files of one dataset; a file is <<>> when read_csv
\* raises on it, else <<its content>>.  <<>> stands for the result None.
load_csvs(csvs) ==
    IF Len(csvs) = 0 THEN <<>>
    ELSE LET readable == {i \in 1..Len(csvs) : csvs[i] # <<>>}
             loaded == [i \in 1..Len(csvs) |->
                           IF csvs[i] = <<>> THEN <<>>
                           ELSE LET f == read_csv(csvs[i][1])
                                IN  SetColumn(f, kSourceFile,
                                              [r \in 1..Len(f.rows) |-> Str(<<"p">>)])]
             frames == SelectPositions(loaded, readable, 1)
         IN  IF Len(frames) = 0 THEN <<>>
             ELSE << DropColumn(concat(frames), kSourceFile) >>

\* the digits of s read as a decimal number
RECURSIVE DecimalValue(_)
DecimalValue(s) ==
    IF Len(s) = 0 THEN 0
    ELSE 10 * DecimalValue(SubSeq(s, 1, Len(s) - 1))
         + (CHOOSE d \in 0..9 : DigitsOf(d) = <<s[Len(s)]>>)

RECURSIVE Reduced(_, _)
\* m * 10^(-e) without trailing zeros in the mantissa
Reduced(m, e) ==
    IF e > 0 /\ m % 10 = 0 THEN Reduced(m \div 10, e - 1) ELSE <<m, e>>

\* pd.to_numeric(..., errors="coerce") on one cell: an optional sign, digits
\* with at most one decimal point and at least one digit; anything else is NaN
to_numeric(cell) ==
    IF cell.k # "str" THEN cell
    ELSE LET s0 == Strip(cell.v)
             neg == Len(s0) > 0 /\ s0[1] = "-"
             s   == IF Len(s0) > 0 /\ s0[1] \in {"-", "+"}
                    THEN SubSeq(s0, 2, Len(s0)) ELSE s0
             dots == {i \in 1..Len(s) : s[i] = "."}
             ok  == /\ \A i \in 1..Len(s) : s[i] \in DigitChars \cup {"."}
                    /\ Cardinality(dots) <= 1
                    /\ \E i \in 1..Len(s) : s[i] \in DigitChars
         IN  IF ~ok THEN Null
             ELSE LET p    == IF dots = {} THEN Len(s) + 1 ELSE SetMin(dots)
                      int  == SubSeq(s, 1, p - 1)
                      frac == SubSeq(s, p + 1, Len(s))
                      r    == Reduced(DecimalValue(int \o frac), Len(frac))
                  IN  Num(IF neg THEN 0 - r[1] ELSE r[1], r[2])

\* frame with the function f applied to every cell of the columns in names
MapColumns(frame, names, f(_)) ==
    [frame EXCEPT !.rows =
        [r \in 1..Len(frame.rows) |->
            [c \in 1..Len(frame.rows[r]) |->
                IF frame.columns[c] \in names THEN f(frame.rows[r][c])
                ELSE frame.rows[r][c]]]]

\* the text columns of the unified table
TextColumns == {kCity, kCountry, kYear}

\* coerce_numerics converting the text columns too
coerce_numerics_AllColumns(frame) ==
    MapColumns(frame, {frame.columns[c] : c \in 1..Len(frame.columns)}, to_numeric)

\* coerce_numerics(df)
coerce_numerics(frame) ==
    MapColumns(frame,
               {frame.columns[c] : c \in 1..Len(frame.columns)} \ TextColumns,
               to_numeric)

\* astype(str).str.strip() on one cell: NaN becomes the text "nan"
AsStrStripped(cell) ==
    IF cell.k = "null" THEN Str(kNan) ELSE Str(Strip(cell.v))

\* for col in ("city", "country", "year"): a missing column is added, filled with ""
EnsureRequired(frame) ==
    LET add(f, name) ==
            IF ColumnPositions(f, name) # {} THEN f
            ELSE SetColumn(f, name, [r \in 1..Len(f.rows) |-> Str(<<>>)])
    IN  add(add(add(frame, kCity), kCountry), kYear)

\* df.to_sql(..., if_exists="append"): the rows are added to the table there is
to_sql_Append(existing, frame) ==
    IF existing = <<>> THEN frame
    ELSE [columns |-> existing[1].columns, rows |-> existing[1].rows \o frame.rows]

\* df.to_sql(table_name, conn, if_exists="replace", index=False): the table
\* after the call, given the table there was (<<>> = none)
to_sql(existing, frame) == frame

\* the test `df is None or df.empty` of import_table
NoData(loaded) ==
    IF loaded = <<>> THEN TRUE
    ELSE Len(loaded[1].rows) = 0 \/ Len(loaded[1].columns) = 0

\* the frames import_table computes from the sorted files of one dataset,
\* before it touches the database: loaded is what load_csvs returned, frame
\* the frame handed to to_sql (<<>> when the dataset is skipped)
prepare_table(csvs) ==
    LET loaded == load_csvs(csvs)
    IN  IF NoData(loaded)
        THEN [loaded |-> loaded, frame |-> <<>>]
        ELSE LET f1 == coerce_numerics(loaded[1])
                 f2 == EnsureRequired(f1)
                 f3 == MapColumns(f2, TextColumns, AsStrStripped)
             IN  [loaded |-> loaded, frame |-> <<f3>>]

\* import_table: ok is the value returned, table the destination table after
\* the call, combined what load_csvs returned
import_table(existing, prepared) ==
    IF prepared.frame = <<>>
    THEN [ok |-> FALSE, table |-> existing, combined |-> prepared.loaded]
    ELSE [ok |-> TRUE, table |-> <<to_sql(existing, prepared.frame[1])>>,
          combined |-> prepared.loaded]

-----------------------------------------------------------------------------
(* The helper functions on their own: Init draws the input, one action applies *)

\* all sequences over alphabet of length at most n
SeqsUpTo(alphabet, n) == UNION {[1..k -> alphabet] : k \in 0..n}

LabelChars == {"a", "B", "1", " ", "_", "-"}
CellChars  == {"a", "b", ",", " "}
RowCells   == {<<>>, <<"a">>, <<"b">>}

\* main() is not running
CampaignOff(mode) ==
    /\ site = [u \in Units |-> "single"]
    /\ pc = mode
    /\ di = 1
    /\ yi = 1
    /\ session = "none"
    /\ quitCalls = 0
    /\ results = [u \in {} |-> 0]
    /\ files = [u \in {} |-> 0]
    /\ df = <<>>
    /\ exc = "none"
    /\ exit = "running"
    /\ report = <<>>
    /\ invoked = {}
    /\ warned = {}
    /\ log = <<>>

InitNormalize ==
    /\ CampaignOff("normalize")
    /\ UnifierOff
    /\ QueryOff
    /\ arg \in SeqsUpTo(LabelChars, MaxLabelLen)
    /\ out = <<>>

\* normalize(arg), and normalize applied again to its result
ApplyNormalize ==
    /\ pc = "normalize"
    /\ out = <<>>
    /\ out' = << [once |-> normalize(arg), twice |-> normalize(normalize(arg))] >>
    /\ UNCHANGED <<campaignVars, unifierVars, queryVars, arg>>

NextNormalize == ApplyNormalize

SpecNormalize == InitNormalize /\ [][NextNormalize]_vars

InitSplit ==
    /\ CampaignOff("split")
    /\ UnifierOff
    /\ QueryOff
    /\ arg \in SeqsUpTo(CellChars, MaxCellLen)
    /\ out = <<>>

\* split_city_country(arg)
ApplySplit ==
    /\ pc = "split"
    /\ out = <<>>
    /\ out' = << split_city_country(arg) >>
    /\ UNCHANGED <<campaignVars, unifierVars, queryVars, arg>>

NextSplit == ApplySplit

SpecSplit == InitSplit /\ [][NextSplit]_vars

InitAlign ==
    /\ CampaignOff("align")
    /\ UnifierOff
    /\ QueryOff
    /\ arg \in [row : SeqsUpTo(RowCells, MaxRowLen), n_cols : 0..MaxRowLen]
    /\ out = <<>>

\* the pad/trim of scrape_dataset applied to one raw row
ApplyAlign ==
    /\ pc = "align"
    /\ out = <<>>
    /\ out' = << AlignRow(arg.row, arg.n_cols) >>
    /\ UNCHANGED <<campaignVars, unifierVars, queryVars, arg>>

NextAlign == ApplyAlign

SpecAlign == InitAlign /\ [][NextAlign]_vars

\* longest table, in pages, given to the pagination loop
MaxPages == 3
\* longest header text and aria-label given to scrape_headers
MaxHeaderLen == 2

\* the rendered pages scrape_table may meet
TablePages ==
    [wait : BOOLEAN,
     trs  : {<< <<tZ>> >>, << <<>>, <<tXY, <<"7">> >> >>},
     next : {"absent", "disabled", "enabled", "click_raises"}]

\* tables of at most MaxPages pages; the last page has no enabled next control
Tables ==
    {t \in SeqsUpTo(TablePages, MaxPages) :
        Len(t) >= 1 /\ t[Len(t)].next # "enabled"}

InitTable ==
    /\ CampaignOff("table")
    /\ UnifierOff
    /\ QueryOff
    /\ arg \in Tables
    /\ out = <<>>

\* the while loop of scrape_table run on the table arg
ApplyTable ==
    /\ pc = "table"
    /\ out = <<>>
    /\ out' = << TableLoop(arg, 1, <<>>) >>
    /\ UNCHANGED <<campaignVars, unifierVars, queryVars, arg>>

NextTable == ApplyTable

SpecTable == InitTable /\ [][NextTable]_vars

HeaderChars == {"a", "A", "#", " "}

InitHeaders ==
    /\ CampaignOff("headers")
    /\ UnifierOff
    /\ QueryOff
    /\ arg \in [text : SeqsUpTo(HeaderChars, MaxHeaderLen),
                aria : SeqsUpTo(HeaderChars, MaxHeaderLen)]
    /\ out = <<>>

\* scrape_headers on a header row whose only cell is arg
ApplyHeaders ==
    /\ pc = "headers"
    /\ out = <<>>
    /\ out' = << scrape_headers(<<arg>>) >>
    /\ UNCHANGED <<campaignVars, unifierVars, queryVars, arg>>

NextHeaders == ApplyHeaders

SpecHeaders == InitHeaders /\ [][NextHeaders]_vars

\* longest text of a cell handed to coerce_numerics
MaxNumLen == 3

\* the characters of such a cell
NumChars == {"0", "1", ".", "-", "a"}

\* a cell of a loaded frame: missing, or a text
LoadedCells(n) == {Null} \cup {Str(s) : s \in SeqsUpTo(NumChars, n)}

\* a loaded frame of one row: t under the three text columns, x under idx
InitCoerce ==
    /\ CampaignOff("coerce")
    /\ UnifierOff
    /\ QueryOff
    /\ \E t \in LoadedCells(1), x \in LoadedCells(MaxNumLen) :
          arg = [columns |-> <<kCity, <<"i","d","x">>, kCountry, kYear>>,
                 rows    |-> << <<t, x, t, t>> >>]
    /\ out = <<>>

\* df = coerce_numerics(df)
ApplyCoerce ==
    /\ pc = "coerce"
    /\ out = <<>>
    /\ out' = << coerce_numerics(arg) >>
    /\ UNCHANGED <<campaignVars, unifierVars, queryVars, arg>>

NextCoerce == ApplyCoerce

SpecCoerce == InitCoerce /\ [][NextCoerce]_vars

-----------------------------------------------------------------------------
(* import_db.main() *)

\* most CSV files one dataset has in data/
MaxBatches == 2
\* most import runs made over the same data/
MaxRuns == 2

TABLES == <<"cost_of_living", "quality_of_life", "crime", "property_prices">>

\* the year tags in the order sorted(glob(...)) lists a dataset's files
SortedYears == <<YEARS[2], YEARS[3], YEARS[4], YEARS[1]>>

\* a file read_csv raises on, a file with a header and no row, or the batch
\* the scraper writes for a page
FileKinds == {"unreadable", "header_only", "single", "two_pages", "no_city",
              "dash_city", "mixed_case"}

\* the j-th file of a dataset: <<>> if read_csv raises on it, else <<content>>
CsvOf(kind, j) ==
    CASE kind = "unreadable" -> <<>>
      [] kind = "header_only" -> << [header |-> <<kCity, kYear>>, rows |-> <<>>] >>
      [] OTHER -> << to_csv(scrape_dataset(PageOf(kind), SortedYears[j]).df[1]) >>

\* the files of one dataset, from their kinds
CsvsOf(kinds) == [j \in 1..Len(kinds) |-> CsvOf(kinds[j], j)]

\* the data directories considered: one dataset has any files, the others
\* all have the same
DataDirs ==
    {[d \in 1..Len(TABLES) |-> IF d = k THEN c ELSE b] :
        k \in 1..Len(TABLES),
        c \in SeqsUpTo(FileKinds, MaxBatches),
        b \in {<<>>, <<"header_only">>, <<"single", "no_city">>}}

\* what import_table computes for each choice of a dataset's files (merging
\* with the empty function changes nothing and has the table computed once)
Prepared ==
    [c \in SeqsUpTo(FileKinds, MaxBatches) |-> prepare_table(CsvsOf(c))] @@ <<>>

\* the test `success_count == 0` if it asked for every table instead
NoDataImported_UnlessAll(n) == n < Len(TABLES)

\* the test `success_count == 0` that ends the run with sys.exit(1)
NoDataImported(n) == n = 0

InitUnify ==
    /\ CampaignOff("unify")
    /\ arg = <<>>
    /\ out = <<>>
    /\ QueryOff
    /\ dataDir \in DataDirs
    /\ ipc = "connect"
    /\ ti = 1
    /\ db = [d \in 1..Len(TABLES) |-> <<>>]
    /\ success_count = 0
    /\ combined = <<>>
    /\ fatal = FALSE
    /\ iexit = "running"
    /\ runs = 0
    /\ dbFirst = <<>>

\* conn = sqlite3.connect(DB_PATH); success_count = 0
Connect ==
    /\ ipc = "connect"
    /\ ipc' = "import"
    /\ ti' = 1
    /\ success_count' = 0
    /\ combined' = <<>>
    /\ UNCHANGED <<campaignVars, queryVars, arg, out, dataDir, db, fatal, iexit,
                   runs, dbFirst>>

\* one turn of the loop: ok = import_table(conn, table_name, dataset_key)
ImportTable ==
    /\ ipc = "import"
    /\ LET r == import_table(db[ti], Prepared[dataDir[ti]])
       IN  /\ db' = [db EXCEPT ![ti] = r.table]
           /\ success_count' = IF r.ok THEN success_count + 1 ELSE success_count
           /\ combined' = r.combined
    /\ ti' = ti + 1
    /\ ipc' = IF ti < Len(TABLES) THEN "import" ELSE "finish"
    /\ UNCHANGED <<campaignVars, queryVars, arg, out, dataDir, fatal, iexit, runs,
                   dbFirst>>

\* df.to_sql raises in import_table (the database is locked, the disk is full):
\* except Exception: conn.rollback(), "[FATAL] ...", sys.exit(1), conn.close()
ImportRaises ==
    /\ ipc = "import"
    /\ Prepared[dataDir[ti]].frame # <<>>
    /\ fatal' = TRUE
    /\ iexit' = "error"
    /\ ipc' = "done"
    /\ runs' = runs + 1
    /\ UNCHANGED <<campaignVars, queryVars, arg, out, dataDir, ti, db, success_count,
                   combined, dbFirst>>

\* conn.commit(), conn.close(), "Import complete", then sys.exit(1) if nothing
\* was imported, else the row counts and a normal return
Finish ==
    /\ ipc = "finish"
    /\ iexit' = IF NoDataImported(success_count) THEN "error" ELSE "ok"
    /\ ipc' = "done"
    /\ runs' = runs + 1
    /\ dbFirst' = IF dbFirst = <<>> THEN <<db>> ELSE dbFirst
    /\ UNCHANGED <<campaignVars, queryVars, arg, out, dataDir, ti, db, success_count,
                   combined, fatal>>

\* the operator runs import_db.py again over the same data/
Rerun ==
    /\ ipc = "done"
    /\ runs < MaxRuns
    /\ ipc' = "connect"
    /\ iexit' = "running"
    /\ fatal' = FALSE
    /\ UNCHANGED <<campaignVars, queryVars, arg, out, dataDir, ti, db, success_count,
                   combined, runs, dbFirst>>

NextUnify ==
    \/ Connect
    \/ ImportTable
    \/ ImportRaises
    \/ Finish
    \/ Rerun

SpecUnify == InitUnify /\ [][NextUnify]_vars

-----------------------------------------------------------------------------
(* query_db.main() *)

\* most menu choices one query run reads
MaxChoices == 3

\* numbeo.db as the unifier may leave it: each table written or not there
Stores == [1..Len(TABLES) -> {"absent", "full"}]

InitQuery ==
    /\ CampaignOff("query")
    /\ arg = <<>>
    /\ out = <<>>
    /\ UnifierOff
    /\ qpc = "start"
    /\ store \in Stores
    /\ view = store
    /\ inTxn = FALSE
    /\ store0 = store
    /\ choices = 0

\* conn = get_connection(); print(MENU)
GetConnection ==
    /\ qpc = "start"
    /\ qpc' = "menu"
    /\ view' = store
    /\ inTxn' = FALSE
    /\ UNCHANGED <<campaignVars, unifierVars, arg, out, store, store0, choices>>

\* sqlite3.connect raises OperationalError: "[ERROR] Could not open", sys.exit(1)
ConnectFails ==
    /\ qpc = "start"
    /\ qpc' = "done"
    /\ UNCHANGED <<campaignVars, unifierVars, arg, out, store, view, inTxn, store0,
                   choices>>

\* main reads one more choice from the menu prompt
ReadsChoice ==
    /\ qpc = "menu"
    /\ choices < MaxChoices
    /\ choices' = choices + 1

\* the process ends with the connection open: what it did not commit is lost
Closes ==
    /\ qpc' = "done"
    /\ view' = store
    /\ inTxn' = FALSE

\* choice "0": "Goodbye!", break, conn.close()
Goodbye ==
    /\ qpc = "menu"
    /\ Closes
    /\ UNCHANGED <<campaignVars, unifierVars, arg, out, store, store0, choices>>

\* a choice outside "0".."7": "Invalid option"
InvalidOption ==
    /\ ReadsChoice
    /\ UNCHANGED <<campaignVars, unifierVars, arg, out, qpc, store, view, inTxn,
                   store0>>

\* choices "1".."6": the handler reads its parameters and runs its SELECT; a
\* missing table is an OperationalError run_query prints
FixedQuery ==
    /\ ReadsChoice
    /\ \E handler \in 1..6 :
          UNCHANGED <<campaignVars, unifierVars, arg, out, qpc, store, view, inTxn,
                      store0>>

\* KeyboardInterrupt inside a handler: "(query cancelled)", back to the menu
QueryCancelled ==
    /\ ReadsChoice
    /\ UNCHANGED <<campaignVars, unifierVars, arg, out, qpc, store, view, inTxn,
                   store0>>

\* choice "7" and a blank line: "(empty query -- skipping)"
CustomEmpty ==
    /\ ReadsChoice
    /\ UNCHANGED <<campaignVars, unifierVars, arg, out, qpc, store, view, inTxn,
                   store0>>

\* choice "7" and a SELECT, or a statement sqlite rejects with an
\* OperationalError that run_query prints
CustomSelect ==
    /\ ReadsChoice
    /\ UNCHANGED <<campaignVars, unifierVars, arg, out, qpc, store, view, inTxn,
                   store0>>

\* choice "7" and "DELETE FROM <table>;": conn.execute opens a transaction
\* and deletes the rows in it; no such table is an OperationalError
CustomDelete ==
    /\ ReadsChoice
    /\ \E t \in 1..Len(TABLES) :
          IF view[t] = "absent"
          THEN UNCHANGED <<view, inTxn>>
          ELSE /\ view' = [view EXCEPT ![t] = "empty"]
               /\ inTxn' = TRUE
    /\ UNCHANGED <<campaignVars, unifierVars, arg, out, qpc, store, store0>>

\* choice "7" and "DROP TABLE <table>;": conn.execute opens no transaction
\* for it, so outside a transaction the table is gone from the file at once
CustomDrop ==
    /\ ReadsChoice
    /\ \E t \in 1..Len(TABLES) :
          IF view[t] = "absent"
          THEN UNCHANGED <<view, store>>
          ELSE /\ view' = [view EXCEPT ![t] = "absent"]
               /\ store' = IF inTxn THEN store ELSE [store EXCEPT ![t] = "absent"]
    /\ UNCHANGED <<campaignVars, unifierVars, arg, out, qpc, inTxn, store0>>

\* choice "7" and "COMMIT;": the open transaction is written to the file;
\* with none open it is an OperationalError
CustomCommit ==
    /\ ReadsChoice
    /\ store' = IF inTxn THEN view ELSE store
    /\ inTxn' = FALSE
    /\ UNCHANGED <<campaignVars, unifierVars, arg, out, qpc, view, store0>>

\* choice "7" and a text conn.execute raises another error on (two statements
\* in one text: ProgrammingError): nothing catches it and the process ends
CustomRaises ==
    /\ ReadsChoice
    /\ Closes
    /\ UNCHANGED <<campaignVars, unifierVars, arg, out, store, store0>>

\* KeyboardInterrupt or end of input at the menu prompt: the process ends
Interrupted ==
    /\ qpc = "menu"
    /\ Closes
    /\ choices < MaxChoices
    /\ choices' = choices + 1
    /\ UNCHANGED <<campaignVars, unifierVars, arg, out, store, store0>>

NextQuery ==
    \/ GetConnection
    \/ ConnectFails
    \/ Goodbye
    \/ InvalidOption
    \/ FixedQuery
    \/ QueryCancelled
    \/ CustomEmpty
    \/ CustomSelect
    \/ CustomDelete
    \/ CustomDrop
    \/ CustomCommit
    \/ CustomRaises
    \/ Interrupted

SpecQuery == InitQuery /\ [][NextQuery]_vars

-----------------------------------------------------------------------------
(* Properties *)

\* the cells of a batch
CellsOf(frame) ==
    {frame.rows[r][c] : r \in 1..Len(frame.rows), c \in 1..Len(frame.columns)}

\* a missing-value sentinel: "-" or any letter-case variant of "N/A"
IsSentinel(cell) == cell = sDash \/ Lower(cell) = sna

\* C1: no cell of a batch returned by scrape_dataset or written by main is a
\* missing-value sentinel ("-", "N/A" in any letter case).
C1_NoSentinelInBatch ==
    /\ \A u \in DOMAIN files : \A cell \in CellsOf(files[u]) : ~IsSentinel(cell)
    /\ df # <<>> => \A cell \in CellsOf(df[1]) : ~IsSentinel(cell)

\* frame has a column labelled name and no row is empty in it
ColumnFilled(frame, name) ==
    /\ ColumnPositions(frame, name) # {}
    /\ \A r \in 1..Len(frame.rows) :
          \A c \in ColumnPositions(frame, name) : frame.rows[r][c] # <<>>

\* C2: every record of every batch returned by scrape_dataset has a city and
\* a year field, present and non-empty.
C2_CityAndYearPresent ==
    df # <<>> => ColumnFilled(df[1], kCity) /\ ColumnFilled(df[1], kYear)

\* C3: a failure inside one unit never aborts the campaign: unless interrupted
\* from outside, main ends only after invoking scrape_dataset for every unit.
C3_EveryUnitInvoked ==
    (pc = "done" /\ session # "none" /\ exc # "interrupt") => invoked = Units

\* C4: a campaign that attempted every unit and wrote no file ends with a
\* non-zero exit status.
C4_ZeroSuccessesFails ==
    (pc = "done" /\ invoked = Units /\ DOMAIN results = {}) => ExitCode(exit) # 0

\* C5: a unit in which a bounded wait timed out (header wait, first-page row
\* wait, or row wait after a next-page click) yields no batch and no file.
C5_TimeoutSkipsUnit ==
    /\ \A u \in warned : u \notin DOMAIN files
    /\ (pc = "scraped" /\ unit \in warned) => df = <<>>

UnitsWithData ==
    {u \in Units :
        HasData(scrape_dataset(PageOf(site[u]), YEARS[((u - 1) % Len(YEARS)) + 1]).df)}

\* C7: a unit with zero rows writes no file and is no success; at the end the
\* successes are the units that returned a non-empty batch, and main reports
\* their number against the total of attempted units.
C7_TallyAgainstAttempted ==
    (pc = "done" /\ exit = "ok") =>
        /\ DOMAIN files = UnitsWithData
        /\ DOMAIN results = UnitsWithData
        /\ report # <<>>
        /\ report[1].total_files = Cardinality(UnitsWithData)
        /\ "attempted" \in DOMAIN report[1]
        /\ report[1].attempted = Cardinality(Units)

\* C8: aligned to n_cols, a row has exactly n_cols cells: a shorter row keeps
\* its cells as a prefix followed by empty strings, a longer row is cut to its
\* first n_cols cells.
C8_AlignedRowHasHeaderWidth ==
    (pc = "align" /\ out # <<>>) =>
        LET row == arg.row
            n == arg.n_cols
            res == out[1]
        IN  /\ Len(res) = n
            /\ Len(row) <= n =>
                  /\ SubSeq(res, 1, Len(row)) = row
                  /\ \A i \in (Len(row) + 1)..n : res[i] = <<>>
            /\ Len(row) > n => \A i \in 1..n : res[i] = row[i]

C8_Witness_LongRowCut ==
    /\ pc = "align" /\ out # <<>>
    /\ arg.n_cols > 0 /\ Len(arg.row) > arg.n_cols /\ Len(out[1]) = arg.n_cols

\* positions of the commas of s
CommasOf(s) == {i \in 1..Len(s) : s[i] = ","}

\* C9 as stated: with a comma, country is the trimmed text after the last
\* comma and city the trimmed text before it; with no comma, city is the whole
\* string and country is empty.
C9_Original_CityIsWholeString ==
    (pc = "split" /\ out # <<>>) =>
        IF CommasOf(arg) # {}
        THEN LET last == SetMax(CommasOf(arg))
             IN  /\ out[1].country = Strip(SubSeq(arg, last + 1, Len(arg)))
                 /\ out[1].city = Strip(SubSeq(arg, 1, last - 1))
        ELSE out[1].city = arg /\ out[1].country = <<>>

\* C9 (amended): with a comma, country is the trimmed text after the last
\* comma and city the trimmed text before it; with no comma, city is the
\* whitespace-trimmed whole string and country is empty.
C9_SplitOnLastComma ==
    (pc = "split" /\ out # <<>>) =>
        IF CommasOf(arg) # {}
        THEN LET last == SetMax(CommasOf(arg))
             IN  /\ out[1].country = Strip(SubSeq(arg, last + 1, Len(arg)))
                 /\ out[1].city = Strip(SubSeq(arg, 1, last - 1))
        ELSE out[1].city = Strip(arg) /\ out[1].country = <<>>

C9_Witness_CityKeepsComma ==
    /\ pc = "split" /\ out # <<>>
    /\ Cardinality(CommasOf(arg)) = 2
    /\ out[1].city = <<"a", ",", "b">>

\* runs of lowercase letters and digits separated by single underscores
IsIdentifier(s) ==
    /\ \A i \in 1..Len(s) : IsAlnum(s[i]) \/ s[i] = "_"
    /\ Len(s) > 0 => s[1] # "_" /\ s[Len(s)] # "_"
    /\ \A i \in 1..(Len(s) - 1) : ~(s[i] = "_" /\ s[i + 1] = "_")

\* C10: normalize(normalize(L)) = normalize(L), and normalize(L) is made of
\* runs of lowercase letters and digits separated by single underscores, with
\* no leading or trailing underscore.
C10_NormalizeIdempotent ==
    (pc = "normalize" /\ out # <<>>) =>
        /\ out[1].twice = out[1].once
        /\ IsIdentifier(out[1].once)

C10_Witness_LabelRewritten ==
    /\ pc = "normalize" /\ out # <<>>
    /\ arg = <<"B", "-", " ", "a">>
    /\ out[1].once = <<"b", "_", "a">>


RECURSIVE RowsOfPages(_, _)
\* the rows of the first n pages of tbl, in page order
RowsOfPages(tbl, n) ==
    IF n = 0 THEN <<>> ELSE RowsOfPages(tbl, n - 1) \o PageRows(tbl[n].trs)

\* the first page of tbl whose next control is not enabled
LastPage(tbl) == SetMin({i \in 1..Len(tbl) : tbl[i].next # "enabled"})

\* every page up to n renders its rows within the wait
Renders(tbl, n) == \A i \in 1..n : tbl[i].wait

\* C17: when every page renders, extraction ends at the first page whose next
\* control is absent or disabled and every page before it is followed by one
\* click: a table of N pages ending so yields exactly N pages, then stops.
C17_PaginationFollowsControl ==
    (pc = "table" /\ out # <<>>) =>
        LET n == LastPage(arg)
        IN  (Renders(arg, n) /\ arg[n].next \in {"absent", "disabled"}) =>
                /\ out[1].pages = n
                /\ out[1].rows = RowsOfPages(arg, n)
                /\ ~out[1].raised
                /\ ~out[1].timed_out

C17_Witness_ThreePagesRead ==
    /\ pc = "table" /\ out # <<>>
    /\ Len(arg) = 3 /\ LastPage(arg) = 3 /\ Renders(arg, 3)
    /\ arg[3].next = "disabled"
    /\ out[1].pages = 3

\* C19: a header cell with empty or whitespace-only text gets the normalized
\* aria-label if it has one, else "col"; and every identifier returned by
\* scrape_headers is non-empty.
C19_HeaderIdentifierNonEmpty ==
    (pc = "headers" /\ out # <<>>) =>
        /\ Strip(arg.text) = <<>> =>
              out[1][1] = IF arg.aria # <<>> THEN normalize(arg.aria)
                          ELSE <<"c", "o", "l">>
        /\ out[1][1] # <<>>


\* positions in log of the scrape_dataset calls and of the file writes
ScrapeEvents == {i \in 1..Len(log) : log[i].op = "scrape"}
WriteEvents  == {i \in 1..Len(log) : log[i].op = "write"}

\* the batch scrape_dataset returns for unit u on this website
BatchOf(u) == Scraped[<<site[u], ((u - 1) % Len(YEARS)) + 1>>].df

\* C15: units are scraped one at a time in the order DATASETS by YEARS, the
\* file of a unit is written before any later unit is scraped, and what is
\* written is determined by the pages served.
C15_FixedOrder ==
    /\ \A i \in ScrapeEvents :
          log[i].unit = Cardinality({j \in ScrapeEvents : j <= i})
    /\ \A i \in WriteEvents :
          /\ i > 1
          /\ log[i - 1].op = "scrape"
          /\ log[i - 1].unit = log[i].unit
    /\ \A i \in WriteEvents : \A j \in WriteEvents :
          i < j => log[i].unit < log[j].unit
    /\ DOMAIN files = {log[i].unit : i \in WriteEvents}
    /\ \A u \in DOMAIN files : <<files[u]>> = BatchOf(u)
    /\ (pc = "done" /\ exit = "ok") => DOMAIN files = UnitsWithData

C15_Witness_FilesInOrder ==
    /\ pc = "done" /\ exit = "ok"
    /\ Cardinality(ScrapeEvents) = Cardinality(Units)
    /\ Cardinality(WriteEvents) = Cardinality(Units) - 1
    /\ 2 \notin DOMAIN files

\* C18: within one unit the page is requested exactly once and the headers
\* are extracted at most once, from that same page load.
C18_SinglePageRequest ==
    \A i \in ScrapeEvents : log[i].gets = 1 /\ log[i].header_reads <= 1


\* C11: once a run of the unifier has finished, running it again over the same
\* batches leaves every table as that run left it: the tables are replaced,
\* never appended to
C11_RerunLeavesTablesIdentical == dbFirst # <<>> => db = dbFirst[1]

\* a second run has ended normally over tables that hold rows
C11_Witness_SecondRunDone ==
    /\ runs = 2
    /\ ipc = "done"
    /\ iexit = "ok"
    /\ dbFirst # <<>>
    /\ \E t \in 1..Len(TABLES) : db[t] # <<>> /\ Len(db[t][1].rows) >= 2


\* the frames read_csv makes of the readable files of dataset t, in file order
BatchFramesOf(t) ==
    LET csvs == CsvsOf(dataDir[t])
        readable == {i \in 1..Len(csvs) : csvs[i] # <<>>}
    IN  SelectPositions([i \in 1..Len(csvs) |->
                            IF csvs[i] = <<>> THEN <<>> ELSE read_csv(csvs[i][1])],
                        readable, 1)

RECURSIVE RowsBefore(_, _)
\* the number of rows in the frames before the j-th
RowsBefore(frames, j) ==
    IF j = 1 THEN 0 ELSE RowsBefore(frames, j - 1) + Len(frames[j - 1].rows)

\* C12: a written table has as columns exactly the columns of the dataset's
\* batches, one row per batch row, and null wherever a row's batch lacks the
\* column
C12_TableIsNullFilledUnion ==
    \A t \in 1..Len(TABLES) :
        (dbFirst # <<>> /\ db[t] # <<>>) =>
            LET frames == BatchFramesOf(t)
                T == db[t][1]
            IN  /\ {T.columns[i] : i \in 1..Len(T.columns)}
                     = UNION {{frames[j].columns[i] : i \in 1..Len(frames[j].columns)} :
                                 j \in 1..Len(frames)}
                /\ Len(T.rows) = RowsBefore(frames, Len(frames) + 1)
                /\ \A j \in 1..Len(frames) :
                   \A r \in 1..Len(frames[j].rows) :
                   \A i \in 1..Len(T.columns) :
                       ColumnPositions(frames[j], T.columns[i]) = {}
                           => T.rows[RowsBefore(frames, j) + r][i] = Null


\* the dataset t yields no row: it has no file, or only unreadable or empty ones
YieldsNoRows(t) == Prepared[dataDir[t]].frame = <<>>

WrittenOf(t) ==
    LET csvs == CsvsOf(dataDir[t])
        readable == {i \in 1..Len(csvs) : csvs[i] # <<>>}
    IN  SelectPositions([i \in 1..Len(csvs) |->
                            IF csvs[i] = <<>> THEN [header |-> <<>>, rows |-> <<>>]
                            ELSE csvs[i][1]],
                        readable, 1)

\* the positions of the label name in the header of a written file
HeaderPositions(file, name) == {i \in 1..Len(file.header) : file.header[i] = name}

\* C20: in a written table the city, country and year of every row are the
\* trimmed values the harvester wrote for the record (an empty country stays
\* the empty string), and a required column no batch has holds the empty string
C20_RoundTripKeepsTextColumns ==
    \A t \in 1..Len(TABLES) :
        (dbFirst # <<>> /\ db[t] # <<>>) =>
            LET written == WrittenOf(t)
                T == db[t][1]
            IN  \A name \in {kCity, kCountry, kYear} :
                    /\ ColumnPositions(T, name) # {}
                    /\ \A j \in 1..Len(written) :
                       \A r \in 1..Len(written[j].rows) :
                           LET cell == T.rows[RowsBefore(written, j) + r]
                                             [SetMin(ColumnPositions(T, name))]
                               at == HeaderPositions(written[j], name)
                           IN  /\ at # {} =>
                                     cell = Str(Strip(written[j].rows[r][SetMin(at)]))
                               /\ (\A k \in 1..Len(written) :
                                       HeaderPositions(written[k], name) = {})
                                     => cell = Str(<<>>)


\* C13: coerce_numerics keeps the columns and rows; a cell of city, country or
\* year is left as it was, and any other cell ends up a number or null: null
\* stays null, a text without a digit or with a letter becomes null, and a
\* text of digits becomes the number it writes
C13_CoerceNumericOrNull ==
    (pc = "coerce" /\ out # <<>>) =>
        LET g == out[1]
        IN  /\ g.columns = arg.columns
            /\ Len(g.rows) = Len(arg.rows)
            /\ \A r \in 1..Len(arg.rows) :
                   /\ Len(g.rows[r]) = Len(arg.rows[r])
                   /\ \A c \in 1..Len(arg.columns) :
                        LET before == arg.rows[r][c]
                            after  == g.rows[r][c]
                        IN  IF arg.columns[c] \in {kCity, kCountry, kYear}
                            THEN after = before
                            ELSE /\ after.k \in {"null", "num"}
                                 /\ before.k = "null" => after = Null
                                 /\ (before.k = "str"
                                        /\ \A i \in 1..Len(before.v) :
                                               before.v[i] \notin DigitChars)
                                       => after = Null
                                 /\ (before.k = "str"
                                        /\ \E i \in 1..Len(before.v) :
                                               before.v[i] = "a")
                                       => after = Null
                                 /\ (before.k = "str" /\ Len(before.v) > 0
                                        /\ \A i \in 1..Len(before.v) :
                                               before.v[i] \in DigitChars)
                                       => after = Num(DecimalValue(before.v), 0)

\* a frame was coerced whose idx cell became a number while the same digit
\* under city stayed a text
C13_Witness_NumberParsedTextKept ==
    /\ pc = "coerce"
    /\ out # <<>>
    /\ arg.rows[1][1] = Str(<<"1">>)
    /\ out[1].rows[1][1] = Str(<<"1">>)
    /\ arg.rows[1][2] = Str(<<"1", "0">>)
    /\ out[1].rows[1][2] = Num(10, 0)


\* C16: when a query run has ended, the four tables of numbeo.db are as they
\* were when it started
C16_QueryRunLeavesStoreAlone == qpc = "done" => store = store0

====
